---- MODULE Spec2Model ----
(***************************************************************************)
(* ResilienceOptions.validate_resilience_options of                        *)
(* qiskit_ibm_runtime/options/resilience_options.py, as a state machine.   *)
(*                                                                         *)
(* The caller builds a dict (an insertion-ordered mapping) and calls the   *)
(* validator on it; the validator runs its statements in program order and *)
(* either returns None or raises.  Python values are tagged records, so    *)
(* None, the empty string and the empty list are three different values.   *)
(***************************************************************************)
EXTENDS Naturals, Sequences, FiniteSets

VARIABLES
    resilience_options, \* the dict argument: a sequence of [key, val] items in insertion order
    pc,                 \* position of the call: "idle", a line label, "returned" or "raised"
    noise_amplifier,    \* local of line 92
    extrapolator,       \* local of line 98
    outcome,            \* how the current call ended (or NoOutcome while it runs)
    warnings,           \* number of deprecation messages issued so far
    warningsAtEntry,    \* value of warnings when the current call started
    optionsAtEntry,     \* the dict as it was when the current call started
    results,            \* outcomes of the calls already finished, oldest first
    calls               \* number of calls started

vars == <<resilience_options, pc, noise_amplifier, extrapolator, outcome,
          warnings, warningsAtEntry, optionsAtEntry, results, calls>>

----------------------------------------------------------------------------
(* Bounds of the exploration *)

MaxLen == 5     \* longest noise_factors list the caller supplies
MaxCalls == 2   \* calls of the validator on the same dict

----------------------------------------------------------------------------
(* Python values *)

None == [t |-> "NoneType", s |-> "", v |-> << >>]
Str(x) == [t |-> "str", s |-> x, v |-> << >>]
Int(n) == [t |-> "int", s |-> "", v |-> <<n>>]
List(q) == [t |-> "list", s |-> "", v |-> q]

\* bool(x): None, "", 0 and [] are falsy
Truthy(x) ==
    CASE x.t = "NoneType" -> FALSE
      [] x.t = "str" -> x.s # ""
      [] x.t = "int" -> x.v[1] # 0
      [] x.t = "list" -> Len(x.v) > 0

\* x or y
Or(x, y) == IF Truthy(x) THEN x ELSE y

\* len(x): of the values modelled here only a list has one (the str values
\* never reach a len call); len(None) and len(1) raise TypeError
Sized(x) == x.t = "list"
PyLen(x) == Len(x.v)

----------------------------------------------------------------------------
(* The three Literal types *)

ResilienceSupportedOptions == <<"noise_amplifier", "noise_factors", "extrapolator">>

NoiseAmplifierType ==
    <<"TwoQubitAmplifier", "GlobalFoldingAmplifier", "LocalFoldingAmplifier", "CxAmplifier">>

ExtrapolatorType ==
    <<"LinearExtrapolator", "QuadraticExtrapolator", "CubicExtrapolator", "QuarticExtrapolator">>

\* typing.get_args of a Literal of strings: the tuple of its members
get_args(literal) == {Str(literal[i]) : i \in 1..Len(literal)}

----------------------------------------------------------------------------
(* dict operations *)

Keys(d) == {d[i].key : i \in 1..Len(d)}
HasKey(d, k) == k \in Keys(d)
Lookup(d, k) == (CHOOSE i \in 1..Len(d) : d[i].key = k)

\* d.get(k, default)
Get(d, k, default) == IF HasKey(d, k) THEN d[Lookup(d, k)].val ELSE default

\* d after d.pop(k, None): the item is removed
AfterPop(d, k) == SelectSeq(d, LAMBDA item : item.key # k)

\* d after d.get(k): get never changes the dict
AfterGet(d, k) == d

----------------------------------------------------------------------------
(* How a call ends *)

Running == [kind |-> "running", text |-> "", arg |-> None]
ReturnNone == [kind |-> "return", text |-> "", arg |-> None]
ValueError(text, arg) == [kind |-> "ValueError", text |-> text, arg |-> arg]
TypeError(text, arg) == [kind |-> "TypeError", text |-> text, arg |-> arg]

----------------------------------------------------------------------------
(* What the caller may put in the dict *)

UnknownKeys == {"foo", "bar"}

OptionKeys == {ResilienceSupportedOptions[i] : i \in 1..Len(ResilienceSupportedOptions)}
                  \cup UnknownKeys

NoiseFactors(n) == List([i \in 1..n |-> i])

OptionValues(k) ==
    CASE k = "noise_amplifier" ->
             {None, Str(""), Str("Bogus")} \cup get_args(NoiseAmplifierType)
      [] k = "extrapolator" ->
             {None, Str("Bogus")} \cup get_args(ExtrapolatorType)
      [] k = "noise_factors" ->
             {None} \cup {NoiseFactors(n) : n \in 0..MaxLen}
      [] OTHER -> {Int(1)}

----------------------------------------------------------------------------
(* The conditions of validate_resilience_options *)

\* the test of line 78 written as a truth test: `if resilience_options.get("noise_amplifier"):`
IsNoiseAmplifierSetTruthy(d) == Truthy(Get(d, "noise_amplifier", None))

\* line 78: resilience_options.get("noise_amplifier", None) is not None
IsNoiseAmplifierSet(d) == Get(d, "noise_amplifier", None) # None

\* the loop of lines 89-91 leaving after its first iteration
FirstUnsupportedOfHead(d) ==
    IF Len(d) > 0 /\ Str(d[1].key) \notin get_args(ResilienceSupportedOptions) THEN 1 ELSE 0

\* lines 89-91: the loop raises at the first key, in iteration order, that is
\* not a supported option; 0 when the loop runs to its end
FirstUnsupported(d) ==
    LET bad == {i \in 1..Len(d) : Str(d[i].key) \notin get_args(ResilienceSupportedOptions)}
    IN  IF bad = {} THEN 0 ELSE CHOOSE i \in bad : \A j \in bad : i <= j

\* line 92: resilience_options.get("noise_amplifier") or "TwoQubitAmplifier"
EffectiveNoiseAmplifier(d) == Or(Get(d, "noise_amplifier", None), Str("TwoQubitAmplifier"))

\* line 98 with the declared default of line 66: get("extrapolator", "LinearExtrapolator")
SuppliedExtrapolatorDefaulted(d) == Get(d, "extrapolator", Str("LinearExtrapolator"))

\* line 98 written like line 92: get("extrapolator") or "LinearExtrapolator"
SuppliedExtrapolatorOrDefault(d) == Or(Get(d, "extrapolator", None), Str("LinearExtrapolator"))

\* line 98: resilience_options.get("extrapolator")
SuppliedExtrapolator(d) == Get(d, "extrapolator", None)

\* line 109 off by one: len(...) <= 4
CubicTooFewInclusive(x) == PyLen(x) <= 4

\* line 106: len(...) < 5, and line 109: len(...) < 4
QuarticTooFew(x) == PyLen(x) < 5
CubicTooFew(x) == PyLen(x) < 4

----------------------------------------------------------------------------
(* The deprecation sink *)

\* issue_deprecation_msg(...): one message to the warnings sink, then it returns
issue_deprecation_msg(n) == n + 1

----------------------------------------------------------------------------
Init ==
    /\ resilience_options = << >>
    /\ pc = "idle"
    /\ noise_amplifier = None
    /\ extrapolator = None
    /\ outcome = Running
    /\ warnings = 0
    /\ warningsAtEntry = 0
    /\ optionsAtEntry = << >>
    /\ results = << >>
    /\ calls = 0

Raise(exc) ==
    /\ pc' = "raised"
    /\ outcome' = exc

\* the caller adds one item to the dict it is about to validate
SetOption(k, val) ==
    /\ pc = "idle"
    /\ ~HasKey(resilience_options, k)
    /\ resilience_options' = Append(resilience_options, [key |-> k, val |-> val])
    /\ UNCHANGED <<pc, noise_amplifier, extrapolator, outcome, warnings,
                   warningsAtEntry, optionsAtEntry, results, calls>>

\* the caller calls validate_resilience_options(resilience_options)
Call ==
    /\ pc \in {"idle", "returned", "raised"}
    /\ calls < MaxCalls
    /\ calls' = calls + 1
    /\ results' = IF pc = "idle" THEN results ELSE Append(results, outcome)
    /\ pc' = "L78"
    /\ outcome' = Running
    /\ noise_amplifier' = None
    /\ extrapolator' = None
    /\ warningsAtEntry' = warnings
    /\ optionsAtEntry' = resilience_options
    /\ UNCHANGED <<resilience_options, warnings>>

\* lines 78-87
DeprecationCheck ==
    /\ pc = "L78"
    /\ warnings' = IF IsNoiseAmplifierSet(resilience_options)
                   THEN issue_deprecation_msg(warnings)
                   ELSE warnings
    /\ resilience_options' = AfterGet(resilience_options, "noise_amplifier")
    /\ pc' = "L89"
    /\ UNCHANGED <<noise_amplifier, extrapolator, outcome, warningsAtEntry,
                   optionsAtEntry, results, calls>>

\* lines 89-91
SupportedOptionsCheck ==
    /\ pc = "L89"
    /\ LET i == FirstUnsupported(resilience_options)
       IN  IF i # 0
           THEN Raise(ValueError("Unsupported value '{opt}' for resilience.",
                                 Str(resilience_options[i].key)))
           ELSE pc' = "L92" /\ UNCHANGED outcome
    /\ UNCHANGED <<resilience_options, noise_amplifier, extrapolator, warnings,
                   warningsAtEntry, optionsAtEntry, results, calls>>

\* lines 92-97
NoiseAmplifierCheck ==
    /\ pc = "L92"
    /\ noise_amplifier' = EffectiveNoiseAmplifier(resilience_options)
    /\ resilience_options' = AfterGet(resilience_options, "noise_amplifier")
    /\ IF noise_amplifier' \notin get_args(NoiseAmplifierType)
       THEN Raise(ValueError("Unsupported value {noise_amplifier} for noise_amplifier.",
                             noise_amplifier'))
       ELSE pc' = "L98" /\ UNCHANGED outcome
    /\ UNCHANGED <<extrapolator, warnings, warningsAtEntry, optionsAtEntry, results, calls>>

\* lines 98-103
ExtrapolatorCheck ==
    /\ pc = "L98"
    /\ extrapolator' = SuppliedExtrapolator(resilience_options)
    /\ resilience_options' = AfterGet(resilience_options, "extrapolator")
    /\ IF extrapolator' \notin get_args(ExtrapolatorType)
       THEN Raise(ValueError("Unsupported value {extrapolator} for extrapolator.",
                             extrapolator'))
       ELSE pc' = "L104" /\ UNCHANGED outcome
    /\ UNCHANGED <<noise_amplifier, warnings, warningsAtEntry, optionsAtEntry, results, calls>>

\* lines 104-108; the right operand of `and` is evaluated only when the left holds
QuarticCheck ==
    /\ pc = "L104"
    /\ LET noise_factors == Get(resilience_options, "noise_factors", None)
       IN  IF extrapolator = Str("QuarticExtrapolator")
           THEN /\ resilience_options' = AfterGet(resilience_options, "noise_factors")
                /\ IF ~Sized(noise_factors)
                   THEN Raise(TypeError("object of type '{type}' has no len()",
                                        Str(noise_factors.t)))
                   ELSE IF QuarticTooFew(noise_factors)
                   THEN Raise(ValueError("QuarticExtrapolator requires at least 5 noise_factors.",
                                         None))
                   ELSE pc' = "L109" /\ UNCHANGED outcome
           ELSE pc' = "L109" /\ UNCHANGED <<outcome, resilience_options>>
    /\ UNCHANGED <<noise_amplifier, extrapolator, warnings, warningsAtEntry,
                   optionsAtEntry, results, calls>>

\* lines 109-110, then the implicit return None
CubicCheck ==
    /\ pc = "L109"
    /\ LET noise_factors == Get(resilience_options, "noise_factors", None)
       IN  IF extrapolator = Str("CubicExtrapolator")
           THEN /\ resilience_options' = AfterGet(resilience_options, "noise_factors")
                /\ IF ~Sized(noise_factors)
                   THEN Raise(TypeError("object of type '{type}' has no len()",
                                        Str(noise_factors.t)))
                   ELSE IF CubicTooFew(noise_factors)
                   THEN Raise(ValueError("CubicExtrapolator requires at least 4 noise_factors.",
                                         None))
                   ELSE pc' = "returned" /\ outcome' = ReturnNone
           ELSE pc' = "returned" /\ outcome' = ReturnNone /\ UNCHANGED resilience_options
    /\ UNCHANGED <<noise_amplifier, extrapolator, warnings, warningsAtEntry,
                   optionsAtEntry, results, calls>>

Next ==
    \/ \E k \in OptionKeys : \E val \in OptionValues(k) : SetOption(k, val)
    \/ Call
    \/ DeprecationCheck
    \/ SupportedOptionsCheck
    \/ NoiseAmplifierCheck
    \/ ExtrapolatorCheck
    \/ QuarticCheck
    \/ CubicCheck

Spec == Init /\ [][Next]_vars

----------------------------------------------------------------------------
(* Vocabulary of the properties *)

Finished == pc \in {"returned", "raised"}

Options == resilience_options

UnsupportedOptionError(o) ==
    o.kind = "ValueError" /\ o.text = "Unsupported value '{opt}' for resilience."
NoiseAmplifierValueError(o) ==
    o.kind = "ValueError" /\ o.text = "Unsupported value {noise_amplifier} for noise_amplifier."
ExtrapolatorValueError(o) ==
    o.kind = "ValueError" /\ o.text = "Unsupported value {extrapolator} for extrapolator."
QuarticNoiseFactorsError(o) ==
    o.kind = "ValueError" /\ o.text = "QuarticExtrapolator requires at least 5 noise_factors."
CubicNoiseFactorsError(o) ==
    o.kind = "ValueError" /\ o.text = "CubicExtrapolator requires at least 4 noise_factors."
InsufficientNoiseFactorsError(o) == QuarticNoiseFactorsError(o) \/ CubicNoiseFactorsError(o)

RecognizedKeys == {"noise_amplifier", "noise_factors", "extrapolator"}
AmplifierValues ==
    {Str("TwoQubitAmplifier"), Str("GlobalFoldingAmplifier"),
     Str("LocalFoldingAmplifier"), Str("CxAmplifier")}
ExtrapolatorValues ==
    {Str("LinearExtrapolator"), Str("QuadraticExtrapolator"),
     Str("CubicExtrapolator"), Str("QuarticExtrapolator")}

AllKeysRecognized(d) == Keys(d) \subseteq RecognizedKeys
AmplifierAbsentOrNull(d) == Get(d, "noise_amplifier", None) = None
AmplifierInvalid(d) == ~AmplifierAbsentOrNull(d) /\ Get(d, "noise_amplifier", None) \notin AmplifierValues
ExtrapolatorInvalid(d) == Get(d, "extrapolator", None) \notin ExtrapolatorValues
SuppliesNoiseFactors(d) == Get(d, "noise_factors", None).t = "list"
NoiseFactorsLen(d) == Len(Get(d, "noise_factors", None).v)
MinNoiseFactors(d) ==
    CASE Get(d, "extrapolator", None) = Str("QuarticExtrapolator") -> 5
      [] Get(d, "extrapolator", None) = Str("CubicExtrapolator") -> 4
      [] OTHER -> 0
TooFewNoiseFactors(d) ==
    /\ MinNoiseFactors(d) > 0
    /\ (~SuppliesNoiseFactors(d) \/ NoiseFactorsLen(d) < MinNoiseFactors(d))
Emitted(n) == warnings = warningsAtEntry + n

----------------------------------------------------------------------------
(* Properties *)

\* C1 (as stated): validate on the empty dict {} returns without error and
\* issues no deprecation message.
C1_EmptyAccepted ==
    (Finished /\ Options = << >>) => (outcome = ReturnNone /\ Emitted(0))

\* C1 (amended): validate on the empty dict {} raises the unsupported-value
\* error for extrapolator (the value read is None; the default of line 66 is
\* not substituted) and issues no deprecation message.
C1_EmptyRejected ==
    (Finished /\ Options = << >>) =>
        (ExtrapolatorValueError(outcome) /\ outcome.arg = None /\ Emitted(0))

C1_Witness == pc = "raised" /\ Options = << >> /\ ExtrapolatorValueError(outcome)

\* C2: a dict with at least one key outside the three recognized ones is
\* rejected with the unsupported-option error naming one of its unrecognized
\* keys, whatever its other items are.
C2_UnknownKeyRejected ==
    (Finished /\ ~AllKeysRecognized(Options)) =>
        /\ UnsupportedOptionError(outcome)
        /\ \E k \in Keys(Options) \ RecognizedKeys : outcome.arg = Str(k)

C2_Witness ==
    /\ pc = "raised"
    /\ UnsupportedOptionError(outcome)
    /\ Len(Options) = 5
    /\ Options[1].key \in RecognizedKeys
    /\ AmplifierInvalid(Options)
    /\ ExtrapolatorInvalid(Options)
    /\ Get(Options, "noise_factors", None) = None

\* C3 (as stated): with all keys recognized, a non-null noise_amplifier outside
\* the four amplifier values (the empty string included) is rejected with the
\* unsupported-value error for noise_amplifier, and an absent or null
\* noise_amplifier never gives that error.
C3_InvalidAmplifierRejected ==
    (Finished /\ AllKeysRecognized(Options)) =>
        /\ AmplifierInvalid(Options) => NoiseAmplifierValueError(outcome)
        /\ AmplifierAbsentOrNull(Options) => ~NoiseAmplifierValueError(outcome)

\* C4: with all keys recognized and the noise_amplifier check passed, an
\* extrapolator that is absent, null or outside the four extrapolator values is
\* rejected with the unsupported-value error for extrapolator, which carries
\* the value read (None when absent, never the default LinearExtrapolator).
C4_InvalidExtrapolatorRejected ==
    (/\ Finished
     /\ AllKeysRecognized(Options)
     /\ ~NoiseAmplifierValueError(outcome)
     /\ ExtrapolatorInvalid(Options)) =>
        /\ ExtrapolatorValueError(outcome)
        /\ outcome.arg = Get(Options, "extrapolator", None)

C4_Witness ==
    /\ pc = "raised"
    /\ ExtrapolatorValueError(outcome)
    /\ ~HasKey(Options, "extrapolator")
    /\ Get(Options, "noise_amplifier", None) = Str("CxAmplifier")
    /\ HasKey(Options, "noise_factors")

\* C5: once the key, noise_amplifier and extrapolator checks have passed and
\* noise_factors is a sequence of length n: QuarticExtrapolator gives the quartic
\* error iff n < 5 and CubicExtrapolator the cubic error iff n < 4, success
\* otherwise; LinearExtrapolator and QuadraticExtrapolator succeed for every n.
C5_MinimumNoiseFactors ==
    (/\ Finished
     /\ AllKeysRecognized(Options)
     /\ ~NoiseAmplifierValueError(outcome)
     /\ ~ExtrapolatorInvalid(Options)
     /\ SuppliesNoiseFactors(Options)) =>
        LET n == NoiseFactorsLen(Options)
            e == Get(Options, "extrapolator", None)
        IN  /\ e = Str("QuarticExtrapolator") =>
                   /\ QuarticNoiseFactorsError(outcome) <=> n < 5
                   /\ outcome = ReturnNone <=> n >= 5
            /\ e = Str("CubicExtrapolator") =>
                   /\ CubicNoiseFactorsError(outcome) <=> n < 4
                   /\ outcome = ReturnNone <=> n >= 4
            /\ e \in {Str("LinearExtrapolator"), Str("QuadraticExtrapolator")} =>
                   outcome = ReturnNone

C5_Witness ==
    /\ pc = "returned"
    /\ Get(Options, "extrapolator", None) = Str("CubicExtrapolator")
    /\ SuppliesNoiseFactors(Options)
    /\ NoiseFactorsLen(Options) = 4

\* C6 (as stated): every call ends in success, the unsupported-option error,
\* an unsupported-value error or an insufficient-noise-factors error; with
\* CubicExtrapolator or QuarticExtrapolator and noise_factors absent or null
\* the call ends in the insufficient-noise-factors error.
C6_OnlyTypedOutcomes ==
    Finished =>
        /\ \/ outcome = ReturnNone
           \/ UnsupportedOptionError(outcome)
           \/ NoiseAmplifierValueError(outcome)
           \/ ExtrapolatorValueError(outcome)
           \/ InsufficientNoiseFactorsError(outcome)
        /\ (/\ AllKeysRecognized(Options)
            /\ ~NoiseAmplifierValueError(outcome)
            /\ MinNoiseFactors(Options) > 0
            /\ Get(Options, "noise_factors", None) = None) =>
               InsufficientNoiseFactorsError(outcome)

\* C7: a call issues exactly one deprecation message if noise_amplifier is set
\* to a non-null value and none otherwise; the message is issued before any
\* check can raise (so the count is already final at every later position,
\* the rejections included), and a dict that meets every check is accepted
\* with its message issued.
C7_OneDeprecationBeforeChecks ==
    /\ pc \in {"idle", "L78"} => Emitted(0)
    /\ pc \notin {"idle", "L78"} =>
           Emitted(IF AmplifierAbsentOrNull(Options) THEN 0 ELSE 1)
    /\ (/\ Finished
        /\ AllKeysRecognized(Options)
        /\ Get(Options, "noise_amplifier", None) \in AmplifierValues
        /\ ~ExtrapolatorInvalid(Options)
        /\ ~TooFewNoiseFactors(Options)) => (outcome = ReturnNone /\ Emitted(1))

C7_Witness ==
    /\ pc = "raised"
    /\ UnsupportedOptionError(outcome)
    /\ Get(Options, "noise_amplifier", None) = Str("")
    /\ Emitted(1)

\* C8 (as stated): the error reported is that of the first failing check in
\* the order key allow-list, noise_amplifier value, extrapolator value,
\* minimum noise_factors length.
C8_FirstFailingCheckReported ==
    Finished =>
        IF ~AllKeysRecognized(Options) THEN UnsupportedOptionError(outcome)
        ELSE IF AmplifierInvalid(Options) THEN NoiseAmplifierValueError(outcome)
        ELSE IF ExtrapolatorInvalid(Options) THEN ExtrapolatorValueError(outcome)
        ELSE IF TooFewNoiseFactors(Options) THEN InsufficientNoiseFactorsError(outcome)
        ELSE ~UnsupportedOptionError(outcome)

\* C9: during and after a call the dict is the one the call received, and
\* every call on the same dict ends as the calls before it did.
C9_DictUnchangedSameOutcome ==
    /\ pc # "idle" => Options = optionsAtEntry
    /\ \A i \in 1..Len(results) : \A j \in 1..Len(results) : results[i] = results[j]
    /\ Finished => \A i \in 1..Len(results) : results[i] = outcome

C9_Witness ==
    /\ pc = "raised"
    /\ calls = 2
    /\ Len(results) = 1
    /\ NoiseAmplifierValueError(outcome)
    /\ warnings = 2

\* C10 (as stated): validate succeeds exactly on the dicts whose keys are all
\* recognized, whose noise_amplifier is absent, null or one of the four values,
\* whose extrapolator is present and one of the four values, and which supply
\* at least 4 (Cubic) or 5 (Quartic) noise_factors.
C10_AcceptedSet ==
    Finished =>
        (outcome = ReturnNone <=>
            /\ AllKeysRecognized(Options)
            /\ ~AmplifierInvalid(Options)
            /\ ~ExtrapolatorInvalid(Options)
            /\ ~TooFewNoiseFactors(Options))

====
